---------------------------- MODULE Spec2Model ----------------------------
(***************************************************************************)
(* A model of datepp.hpp (beliumgl::DateTimeFormat and beliumgl::DateTime): *)
(* the epoch-to-civil conversion, the format-string parser, the renderer   *)
(* and the comparison / arithmetic operators.                              *)
(*                                                                         *)
(* Text (std::string, char* ) is a sequence of one-character strings.       *)
(* A long long is a record [neg, mag]: a sign and the decimal digits of    *)
(* the magnitude, most significant first, <<>> for zero, because the       *)
(* values the code handles (epochs of 10^10 and more, the 64-bit limits)   *)
(* exceed the integers of the model checker.  A long long that has been    *)
(* divided down to a day count is kept as an integer.                      *)
(***************************************************************************)
EXTENDS Integers, Sequences, FiniteSets, TLC

VARIABLES dt, fmt, call, ret

vars == <<dt, fmt, call, ret>>

-----------------------------------------------------------------------------
(* Sequences                                                               *)

Front(s) == SubSeq(s, 1, Len(s) - 1)

Last(s) == s[Len(s)]

Range(s) == {s[i] : i \in 1..Len(s)}

Abs(n) == IF n < 0 THEN -n ELSE n

-----------------------------------------------------------------------------
(* C++ integer arithmetic on values that fit the model's integers:         *)
(* / truncates toward zero and % takes the sign of the dividend.           *)

TruncDiv(a, b) == IF a >= 0 THEN a \div b ELSE -((-a) \div b)

TruncRem(a, b) == a - b * TruncDiv(a, b)

(* year_t is short: a value stored into it is reduced modulo 2^16.         *)
ShortBits == 16

ToShort(n) == ((n + 2^(ShortBits - 1)) % 2^ShortBits) - 2^(ShortBits - 1)

(* month_t, day_t, hour_t, ... are unsigned char: modulo 2^8.              *)
CharBits == 8

ToUChar(n) == n % 2^CharBits

-----------------------------------------------------------------------------
(* long long: magnitudes as decimal digit sequences                        *)

RECURSIVE StripZeros(_)
StripZeros(s) ==
    IF s = <<>> THEN <<>>
    ELSE IF s[1] = 0 THEN StripZeros(Tail(s)) ELSE s

RECURSIVE LexCmp(_, _)
LexCmp(a, b) ==
    IF a = <<>> THEN 0
    ELSE IF a[1] # b[1] THEN (IF a[1] < b[1] THEN -1 ELSE 1)
    ELSE LexCmp(Tail(a), Tail(b))

MagCmp(a, b) ==
    IF Len(a) # Len(b) THEN (IF Len(a) < Len(b) THEN -1 ELSE 1)
    ELSE LexCmp(a, b)

RECURSIVE MagAddC(_, _, _)
MagAddC(a, b, c) ==
    IF a = <<>> /\ b = <<>> THEN (IF c = 0 THEN <<>> ELSE <<c>>)
    ELSE LET da == IF a = <<>> THEN 0 ELSE Last(a)
             db == IF b = <<>> THEN 0 ELSE Last(b)
             s  == da + db + c
         IN  Append(MagAddC(Front(a), Front(b), s \div 10), s % 10)

MagAdd(a, b) == MagAddC(a, b, 0)

(* a - b for a >= b *)
RECURSIVE MagSubB(_, _, _)
MagSubB(a, b, w) ==
    IF a = <<>> THEN <<>>
    ELSE LET db == IF b = <<>> THEN 0 ELSE Last(b)
             s  == Last(a) - db - w
         IN  Append(MagSubB(Front(a), Front(b), IF s < 0 THEN 1 ELSE 0),
                    IF s < 0 THEN s + 10 ELSE s)

MagSub(a, b) == StripZeros(MagSubB(a, b, 0))

RECURSIVE MagMulDigitC(_, _, _)
MagMulDigitC(a, d, c) ==
    IF a = <<>> THEN (IF c = 0 THEN <<>> ELSE <<c>>)
    ELSE LET s == Last(a) * d + c
         IN  Append(MagMulDigitC(Front(a), d, s \div 10), s % 10)

RECURSIVE MagMul(_, _)
MagMul(a, b) ==
    IF a = <<>> \/ b = <<>> THEN <<>>
    ELSE MagAdd(StripZeros(Append(MagMul(a, Front(b)), 0)),
                StripZeros(MagMulDigitC(a, Last(b), 0)))

(* how many times b (non-zero) fits into r, for r < 10 * b *)
RECURSIVE MagCount(_, _)
MagCount(r, b) ==
    IF MagCmp(r, b) < 0 THEN <<0, r>>
    ELSE LET n == MagCount(MagSub(r, b), b) IN <<n[1] + 1, n[2]>>

(* long division of a by b (non-zero): <<quotient, remainder>> *)
RECURSIVE MagDivModAcc(_, _, _, _)
MagDivModAcc(a, b, q, r) ==
    IF a = <<>> THEN <<StripZeros(q), r>>
    ELSE LET n == MagCount(StripZeros(Append(r, a[1])), b)
         IN  MagDivModAcc(Tail(a), b, Append(q, n[1]), n[2])

MagDivMod(a, b) == MagDivModAcc(a, b, <<>>, <<>>)

RECURSIVE MagOfNat(_)
MagOfNat(n) == IF n = 0 THEN <<>> ELSE Append(MagOfNat(n \div 10), n % 10)

RECURSIVE NatOfMag(_)
NatOfMag(m) == IF m = <<>> THEN 0 ELSE NatOfMag(Front(m)) * 10 + Last(m)

-----------------------------------------------------------------------------
(* long long: signed values                                                *)

LL(neg, mag) == [neg |-> neg /\ mag # <<>>, mag |-> mag]

LLOfInt(n) == LL(n < 0, MagOfNat(Abs(n)))

(* the value as an integer of the model; for magnitudes below 10^9 *)
IntOfLL(x) == IF x.neg THEN -NatOfMag(x.mag) ELSE NatOfMag(x.mag)

FitsInt(x) == Len(x.mag) <= 9

LLNeg(x) == LL(~x.neg, x.mag)

LLAdd(x, y) ==
    IF x.neg = y.neg THEN LL(x.neg, MagAdd(x.mag, y.mag))
    ELSE IF MagCmp(x.mag, y.mag) >= 0 THEN LL(x.neg, MagSub(x.mag, y.mag))
    ELSE LL(y.neg, MagSub(y.mag, x.mag))

LLSub(x, y) == LLAdd(x, LLNeg(y))

LLMul(x, y) == LL(x.neg # y.neg, MagMul(x.mag, y.mag))

(* x / y and x % y of C++, for y # 0 *)
LLDiv(x, y) == LL(x.neg # y.neg, MagDivMod(x.mag, y.mag)[1])

LLRem(x, y) == LL(x.neg, MagDivMod(x.mag, y.mag)[2])

LLCmp(x, y) ==
    IF x.neg # y.neg THEN (IF x.neg THEN -1 ELSE 1)
    ELSE IF x.neg THEN MagCmp(y.mag, x.mag) ELSE MagCmp(x.mag, y.mag)

LLZero == LL(FALSE, <<>>)

(* LLONG_MAX = 2^63 - 1 and LLONG_MIN = -2^63 *)
LLONG_MAX == LL(FALSE, <<9,2,2,3,3,7,2,0,3,6,8,5,4,7,7,5,8,0,7>>)

LLONG_MIN == LL(TRUE, <<9,2,2,3,3,7,2,0,3,6,8,5,4,7,7,5,8,0,8>>)

InLLRange(x) == LLCmp(x, LLONG_MIN) >= 0 /\ LLCmp(x, LLONG_MAX) <= 0

-----------------------------------------------------------------------------
(* Outcomes of a call: a returned value or a thrown exception              *)

Value(v) == [thrown |-> "none", val |-> v]

Throw(e) == [thrown |-> e, val |-> 0]

-----------------------------------------------------------------------------
(* DateTime: calendar helpers                                              *)

(* the test without the century rule *)
isLeapYearEveryFourth(year) == TruncRem(year, 4) = 0

isLeapYear(year) ==
    (TruncRem(year, 4) = 0)
        /\ ((TruncRem(year, 100) # 0) \/ (TruncRem(year, 400) = 0))

monthLengths == <<31, 28, 31, 30, 31, 30, 31, 31, 30, 31, 30, 31>>

(* month is a month_t, 0-based *)
daysInMonth(year, month) ==
    IF month < 0 \/ month > 11 THEN Throw("invalid_argument")
    ELSE Value(IF month = 1 /\ isLeapYear(year) THEN 29
               ELSE monthLengths[month + 1])

(* enum class DOTW: Sunday = 0 .. Saturday = 6 *)
Sunday == 0

Saturday == 6

(* the congruence without the move of January and February to months 13   *)
(* and 14 of the year before                                               *)
dotwByDateNoShift(year, month, day) ==
    IF month < 1 \/ month > 12 THEN Throw("invalid_argument")
    ELSE LET max_day == daysInMonth(year, ToUChar(month - 1)).val
         IN  IF day < 1 \/ day > max_day THEN Throw("invalid_argument")
             ELSE LET K == TruncRem(year, 100)
                      J == TruncDiv(year, 100)
                      h == TruncRem(day + TruncDiv(13 * (month + 1), 5) + K
                                      + TruncDiv(K, 4) + TruncDiv(J, 4) + 5 * J, 7)
                  IN  Value(TruncRem(h - 1 + 7, 7))

(* month (1-based) is a month_t and day (1-based) a day_t; the result is   *)
(* the integer that static_cast<DOTW> is applied to                        *)
dotwByDate(year, month, day) ==
    IF month < 1 \/ month > 12 THEN Throw("invalid_argument")
    ELSE LET max_day == daysInMonth(year, ToUChar(month - 1)).val
         IN  IF day < 1 \/ day > max_day THEN Throw("invalid_argument")
             ELSE LET m == IF month < 3 THEN month + 12 ELSE month
                      y == IF month < 3 THEN year - 1 ELSE year
                      q == day
                      K == TruncRem(y, 100)
                      J == TruncDiv(y, 100)
                      h == TruncRem(q + TruncDiv(13 * (m + 1), 5) + K
                                      + TruncDiv(K, 4) + TruncDiv(J, 4) + 5 * J, 7)
                  IN  Value(TruncRem(h - 1 + 7, 7))

-----------------------------------------------------------------------------
(* DateTime::parseUnix                                                     *)

secondsInDay == 86400

secondsInHour == 3600

secondsInMinute == 60

defYears == 1970

defMonth == 0

(* A timezone_offset_t (double) is modelled by its numerator over          *)
(* OffsetDenom: n stands for n / 64 hours, which a double holds exactly,   *)
(* as it does the product n / 64 * 3600.                                   *)
OffsetDenom == 64

(* static_cast<long long>(timezoneOffset * secondsInHour) *)
timezoneSeconds(timezoneOffset) ==
    TruncDiv(timezoneOffset * secondsInHour, OffsetDenom)

(* One iteration of the loop of lines 265-271 on <<days, year>>; the state *)
(* is left as it is once the loop has reached its break.                   *)
yearForwardStep(st) ==
    LET daysInYear == IF isLeapYear(st[2]) THEN 366 ELSE 365
    IN  IF st[1] >= daysInYear
        THEN <<st[1] - daysInYear, ToShort(st[2] + 1)>>
        ELSE st

(* the backward step taking the length of the year it leaves, not of the   *)
(* year it enters                                                          *)
yearBackwardStepThisYear(st) ==
    IF st[1] < 0
    THEN LET daysInYear == IF isLeapYear(st[2]) THEN 366 ELSE 365
         IN  <<st[1] + daysInYear, ToShort(st[2] - 1)>>
    ELSE st

(* One iteration of the loop of lines 273-278, while days < 0.             *)
yearBackwardStep(st) ==
    IF st[1] < 0
    THEN LET prevYear == ToShort(st[2] - 1)
             daysInYear == IF isLeapYear(prevYear) THEN 366 ELSE 365
         IN  <<st[1] + daysInYear, ToShort(st[2] - 1)>>
    ELSE st

(* At most n iterations of a loop, stopping where the loop stops; n is     *)
(* halved so that the depth of the evaluation stays logarithmic in n.      *)
RECURSIVE yearForwardRun(_, _)
yearForwardRun(st, n) ==
    IF n = 0 THEN st
    ELSE IF n = 1 THEN yearForwardStep(st)
    ELSE LET mid == yearForwardRun(st, n \div 2)
         IN  IF mid[1] < 365 THEN mid
             ELSE yearForwardRun(mid, n - n \div 2)

RECURSIVE yearBackwardRun(_, _)
yearBackwardRun(st, n) ==
    IF n = 0 THEN st
    ELSE IF n = 1 THEN yearBackwardStep(st)
    ELSE LET mid == yearBackwardRun(st, n \div 2)
         IN  IF mid[1] >= 0 THEN mid
             ELSE yearBackwardRun(mid, n - n \div 2)

(* The loops run to their end: every iteration moves days by at least 365, *)
(* so days \div 365 + 1 iterations are more than either loop can take.     *)
yearWalkForward(days, year) ==
    yearForwardRun(<<days, year>>, days \div 365 + 1)

yearWalkBackward(days, year) ==
    yearBackwardRun(<<days, year>>, (-days) \div 365 + 1)

(* the loop of lines 282-288: <<days, month>>, or a throw of daysInMonth *)
RECURSIVE monthWalk(_, _, _)
monthWalk(days, year, month) ==
    LET monthDays == daysInMonth(year, month)
    IN  IF monthDays.thrown # "none" THEN monthDays
        ELSE IF days >= monthDays.val
        THEN monthWalk(days - monthDays.val, year, ToUChar(month + 1))
        ELSE Value(<<days, month>>)

(* the split as the division and remainder leave it, without the          *)
(* correction of a negative remainder                                      *)
daySplitTruncating(adjustedUnix) ==
    [days |-> IntOfLL(LLDiv(adjustedUnix, LLOfInt(secondsInDay))),
     remainder |-> IntOfLL(LLRem(adjustedUnix, LLOfInt(secondsInDay)))]

(* Lines 255-261: the days and the remainder of the day of adjustedUnix,   *)
(* the remainder made non-negative.                                        *)
daySplit(adjustedUnix) ==
    LET days == IntOfLL(LLDiv(adjustedUnix, LLOfInt(secondsInDay)))
        remainderSeconds == IntOfLL(LLRem(adjustedUnix, LLOfInt(secondsInDay)))
    IN  IF remainderSeconds < 0
        THEN [days |-> days - 1, remainder |-> remainderSeconds + secondsInDay]
        ELSE [days |-> days, remainder |-> remainderSeconds]

(* lines 263-279: <<days, year>> after the walk from defYears *)
yearWalk(days) ==
    IF days >= 0 THEN yearWalkForward(days, defYears)
    ELSE yearWalkBackward(days, defYears)

(* lines 290-301: the fields assigned, dotw being what dotwByDate gave *)
assignFields(year, month, days, remainderSeconds, dotw) ==
    IF dotw.thrown # "none" THEN dotw
    ELSE Value([years |-> year, months |-> month, days |-> ToUChar(days),
                hours |-> ToUChar(remainderSeconds \div secondsInHour),
                minutes |-> ToUChar((remainderSeconds % secondsInHour)
                                        \div secondsInMinute),
                seconds |-> ToUChar((remainderSeconds % secondsInHour)
                                        % secondsInMinute),
                dotw |-> dotw.val, remainder |-> remainderSeconds])

(* lines 290-301 after the month walk gave mw *)
dateFields(year, mw, remainderSeconds) ==
    IF mw.thrown # "none" THEN mw
    ELSE assignFields(year, mw.val[2], mw.val[1], remainderSeconds,
                      dotwByDate(year, ToUChar(mw.val[2] + 1),
                                 ToUChar(mw.val[1] + 1)))

(* lines 281-301 after the year walk gave yw *)
monthFields(yw, remainderSeconds) ==
    dateFields(yw[2], monthWalk(yw[1], yw[2], defMonth), remainderSeconds)

(* lines 263-301 on the split of adjustedUnix *)
walkFields(split) == monthFields(yearWalk(split.days), split.remainder)

(* _unix is a long long; the result is the fields the call assigns, or the *)
(* exception it throws.  remainder is the remainder of the day after the   *)
(* correction of lines 258-261.                                            *)
parseUnix(unix, timezoneOffset) ==
    walkFields(daySplit(LLAdd(unix, LLOfInt(timezoneSeconds(timezoneOffset)))))

-----------------------------------------------------------------------------
(* Text and number conversions of the standard library                     *)

digitChars == <<"0", "1", "2", "3", "4", "5", "6", "7", "8", "9">>

digitValues == [c \in Range(digitChars) |-> (CHOOSE i \in 1..10 : digitChars[i] = c) - 1]

IsDigit(c) == c \in DOMAIN digitValues

DigitValue(c) == digitValues[c]

(* isspace in the "C" locale *)
IsSpace(c) == c \in {" ", "\t", "\n", "\r", "\f"}

RECURSIVE SkipSpaces(_)
SkipSpaces(s) ==
    IF s # <<>> /\ IsSpace(s[1]) THEN SkipSpaces(Tail(s)) ELSE s

(* the values of the digits s starts with *)
RECURSIVE LeadingDigits(_)
LeadingDigits(s) ==
    IF s # <<>> /\ IsDigit(s[1])
    THEN <<DigitValue(s[1])>> \o LeadingDigits(Tail(s))
    ELSE <<>>

(* What strtoll(s, nullptr, 10) scans: white space, an optional sign, the  *)
(* digits; conv is whether there was a digit; the rest of s is not looked  *)
(* at.  val is the value read, of any size.                                *)
ScanInteger(s) ==
    LET t == SkipSpaces(s)
        signed == t # <<>> /\ t[1] \in {"+", "-"}
        ds == LeadingDigits(IF signed THEN Tail(t) ELSE t)
    IN  [conv |-> ds # <<>>,
         val |-> LL(signed /\ t[1] = "-", StripZeros(ds))]

(* std::strtoll: 0 without a conversion, the nearest limit out of range *)
strtoll(s) ==
    LET r == ScanInteger(s)
    IN  IF ~r.conv THEN LLZero
        ELSE IF InLLRange(r.val) THEN r.val
        ELSE IF r.val.neg THEN LLONG_MIN ELSE LLONG_MAX

(* std::stoll: strtoll, but the two failures are thrown *)
stoll(s) ==
    LET r == ScanInteger(s)
    IN  IF ~r.conv THEN Throw("invalid_argument")
        ELSE IF ~InLLRange(r.val) THEN Throw("out_of_range")
        ELSE Value(r.val)

(* std::to_string of a long long *)
to_string(x) ==
    IF x.mag = <<>> THEN <<"0">>
    ELSE (IF x.neg THEN <<"-">> ELSE <<>>)
             \o [i \in 1..Len(x.mag) |-> digitChars[x.mag[i] + 1]]

-----------------------------------------------------------------------------
(* DateTime objects and constructors                                       *)

NoObject == [live |-> FALSE]

(* the object a constructor leaves when parseUnix returned fields f *)
Object(text, timezoneOffset, f) ==
    [live |-> TRUE, unix_lit |-> text, unix_str |-> text,
     timezoneOffset |-> timezoneOffset,
     years |-> f.years, months |-> f.months, dotw |-> f.dotw,
     days |-> f.days, hours |-> f.hours, minutes |-> f.minutes,
     seconds |-> f.seconds]

(* DateTime(char*, timezone_offset_t): the object, or the exception *)
DateTimeLit(text, timezoneOffset) ==
    LET n == strtoll(text)
        f == parseUnix(n, timezoneOffset)
    IN  IF f.thrown # "none" THEN Throw("invalid_argument")
        ELSE Value(Object(text, timezoneOffset, f.val))

(* DateTime(const std::string&, timezone_offset_t) *)
DateTimeStr(text, timezoneOffset) ==
    LET n == stoll(text)
    IN  IF n.thrown # "none" THEN Throw("invalid_argument")
        ELSE LET f == parseUnix(n.val, timezoneOffset)
             IN  IF f.thrown # "none" THEN Throw("invalid_argument")
                 ELSE Value(Object(text, timezoneOffset, f.val))

(* The year walk of parseUnix takes one iteration per year; the model      *)
(* follows it for epochs of at most MaxEpochDigits digits.                 *)
MaxEpochDigits == 11

Walkable(x) == Len(x.mag) <= MaxEpochDigits

-----------------------------------------------------------------------------
(* DateTimeFormat                                                          *)

upperChars == <<"A", "B", "C", "D", "E", "F", "G", "H", "I", "J", "K", "L", "M", "N", "O", "P", "Q", "R", "S", "T", "U", "V", "W", "X", "Y", "Z">>

lowerChars == <<"a", "b", "c", "d", "e", "f", "g", "h", "i", "j", "k", "l", "m", "n", "o", "p", "q", "r", "s", "t", "u", "v", "w", "x", "y", "z">>

(* std::tolower of one character *)
tolower(c) ==
    IF \E i \in 1..Len(upperChars) : upperChars[i] = c
    THEN lowerChars[CHOOSE i \in 1..Len(upperChars) : upperChars[i] = c]
    ELSE c

toLowercase(str) == [i \in 1..Len(str) |-> tolower(str[i])]

RECURSIVE removeAll(_, _)
removeAll(str, token) ==
    IF str = <<>> THEN <<>>
    ELSE IF str[1] = token THEN removeAll(Tail(str), token)
    ELSE <<str[1]>> \o removeAll(Tail(str), token)

(* the first occurrence of every character, in order *)
RECURSIVE removeDuplicates(_)
removeDuplicates(str) ==
    IF str = <<>> THEN <<>>
    ELSE LET output == removeDuplicates(Front(str))
         IN  IF Last(str) \in Range(output) THEN output
             ELSE Append(output, Last(str))

dotwToken == "w"

dayToken == "d"

monthToken == "m"

yearToken == "y"

hourToken == "h"

minuteToken == "i"

secondToken == "s"

timezoneOffsetToken == "o"

twelveHoursToken == "_"

alphabeticalMonthToken == "a"

isOrderToken(c) ==
    c = dayToken \/ c = monthToken \/ c = yearToken \/ c = alphabeticalMonthToken

(* the members of a DateTimeFormat as their default initializers leave     *)
(* them, with the local string order of the parsing constructor (empty);   *)
(* twelveHours is the member _12Hours                                      *)
defaultFormat ==
    [live |-> TRUE, delimiter |-> "/", showDotw |-> FALSE, showTime |-> FALSE,
     showUTCoffset |-> FALSE, fillZeros |-> FALSE, alphabeticalMonth |-> FALSE,
     twelveHours |-> FALSE, fullNames |-> FALSE, order |-> <<>>]

(* one iteration of the loop of lines 401-441, at index i (1-based) of     *)
(* newFormat, on the members f                                             *)
formatStep(f, newFormat, i) ==
    LET token == newFormat[i]
        more == i + 1 <= Len(newFormat)
        doubled == more /\ newFormat[i + 1] = token
    IN  IF token = dotwToken
        THEN [f EXCEPT !.showDotw = TRUE,
                       !.fullNames = IF doubled THEN TRUE ELSE @]
        ELSE IF isOrderToken(token)
        THEN LET order == Append(f.order, token)
             IN  [f EXCEPT !.order = order,
                           !.fillZeros = IF doubled /\ ~@ THEN TRUE ELSE @,
                           !.delimiter = IF Len(order) < 3 /\ more
                                         THEN newFormat[i + 1] ELSE @,
                           !.alphabeticalMonth =
                               IF token = alphabeticalMonthToken THEN TRUE ELSE @]
        ELSE IF token = hourToken \/ token = minuteToken \/ token = secondToken
        THEN [f EXCEPT !.showTime = TRUE,
                       !.fillZeros = IF doubled /\ ~@ THEN TRUE ELSE @]
        ELSE IF token = twelveHoursToken THEN [f EXCEPT !.twelveHours = TRUE]
        ELSE IF token = timezoneOffsetToken THEN [f EXCEPT !.showUTCoffset = TRUE]
        ELSE f

(* the loop from index i to the end of newFormat *)
RECURSIVE formatLoop(_, _, _)
formatLoop(f, newFormat, i) ==
    IF i > Len(newFormat) THEN f
    ELSE formatLoop(formatStep(f, newFormat, i), newFormat, i + 1)

(* DateTimeFormat(const std::string&): the object, or the exception *)
DateTimeFormat(format) ==
    LET newFormat == removeAll(toLowercase(format), " ")
        f == formatLoop(defaultFormat, newFormat, 1)
        order == removeDuplicates(f.order)
    IN  IF Len(order) # 3 THEN Throw("runtime_error")
        ELSE Value([f EXCEPT !.order = order])

-----------------------------------------------------------------------------
(* DateTime::toString                                                      *)

dotwStrMap ==
    <<<<"S", "u", "n", "d", "a", "y">>,
      <<"M", "o", "n", "d", "a", "y">>,
      <<"T", "u", "e", "s", "d", "a", "y">>,
      <<"W", "e", "d", "n", "e", "s", "d", "a", "y">>,
      <<"T", "h", "u", "r", "s", "d", "a", "y">>,
      <<"F", "r", "i", "d", "a", "y">>,
      <<"S", "a", "t", "u", "r", "d", "a", "y">>>>

monthsStrMap ==
    <<<<"J", "a", "n", "u", "a", "r", "y">>,
      <<"F", "e", "b", "r", "u", "a", "r", "y">>,
      <<"M", "a", "r", "c", "h">>,
      <<"A", "p", "r", "i", "l">>,
      <<"M", "a", "y">>,
      <<"J", "u", "n", "e">>,
      <<"J", "u", "l", "y">>,
      <<"A", "u", "g", "u", "s", "t">>,
      <<"S", "e", "p", "t", "e", "m", "b", "e", "r">>,
      <<"O", "c", "t", "o", "b", "e", "r">>,
      <<"N", "o", "v", "e", "m", "b", "e", "r">>,
      <<"D", "e", "c", "e", "m", "b", "e", "r">>>>

shortStrLength == 3

(* str.substr(0, n) *)
substr(str, n) == SubSeq(str, 1, IF n < Len(str) THEN n ELSE Len(str))

(* std::to_string of an int *)
to_string_int(n) == to_string(LLOfInt(n))

(* a padding that does not look at the value *)
padZerosAlways(num) == <<"0">> \o to_string_int(num)

(* padZeros<T> for the integer types *)
padZeros(num) ==
    (IF num < 10 /\ num >= 0 THEN <<"0">> ELSE <<>>) \o to_string_int(num)

(* the decimal digits of n, at least width of them *)
RECURSIVE padDigits(_, _)
padDigits(n, width) ==
    IF width = 0 /\ n = 0 THEN <<>>
    ELSE Append(padDigits(n \div 10, IF width = 0 THEN 0 ELSE width - 1),
                digitChars[(n % 10) + 1])

(* std::to_string of a double ("%f", six decimals), for the double that    *)
(* n stands for: n / OffsetDenom, a multiple of 1/64 and so printed        *)
(* exactly                                                                 *)
to_string_double(n) ==
    (IF n < 0 THEN <<"-">> ELSE <<>>)
        \o to_string_int(Abs(n) \div OffsetDenom)
        \o <<".">>
        \o padDigits(((Abs(n) % OffsetDenom) * 1000000) \div OffsetDenom, 6)

(* padZeros<double> *)
padZerosDouble(n) ==
    (IF n < 10 * OffsetDenom /\ n >= 0 THEN <<"0">> ELSE <<>>) \o to_string_double(n)

(* the name of a day or a month: std::unordered_map::at, which throws      *)
(* std::out_of_range for a key that is not in the map                      *)
nameAt(map, key) ==
    IF key \in 0..(Len(map) - 1) THEN Value(map[key + 1]) ELSE Throw("out_of_range")

(* what one character of order adds to result, before the delimiter *)
orderField(o, format, c) ==
    IF c = dayToken
    THEN Value(IF format.fillZeros THEN padZeros(o.days + 1)
               ELSE to_string_int(o.days + 1))
    ELSE IF c = monthToken
    THEN Value(IF format.fillZeros THEN padZeros(o.months + 1)
               ELSE to_string_int(o.months + 1))
    ELSE IF c = alphabeticalMonthToken
    THEN LET name == nameAt(monthsStrMap, o.months)
         IN  IF name.thrown # "none" THEN name
             ELSE Value(IF format.fullNames THEN name.val
                        ELSE substr(name.val, shortStrLength))
    ELSE IF c = yearToken THEN Value(to_string_int(o.years))
    ELSE Value(<<>>)

(* the loop of lines 459-481 over order, from index i *)
RECURSIVE orderLoop(_, _, _, _)
orderLoop(o, format, result, i) ==
    IF i > Len(format.order) THEN Value(result)
    ELSE LET field == orderField(o, format, format.order[i])
         IN  IF field.thrown # "none" THEN field
             ELSE orderLoop(o, format,
                            result \o field.val \o <<format.delimiter>>, i + 1)

(* lines 484-504 *)
timeSection(o, format) ==
    IF ~format.showTime THEN <<>>
    ELSE LET am == o.hours < 12
             h12 == ToUChar(o.hours % 12)
             hours12 == IF h12 = 0 THEN 12 ELSE h12
             shown == IF format.twelveHours THEN hours12 ELSE o.hours
             num(n) == IF format.fillZeros THEN padZeros(n) ELSE to_string_int(n)
         IN  num(shown) \o <<":">> \o num(o.minutes) \o <<":">>
                 \o num(o.seconds) \o <<" ">>
                 \o (IF format.twelveHours
                     THEN (IF am THEN <<"A", "M", " ">> ELSE <<"P", "M", " ">>)
                     ELSE <<>>)

(* lines 506-511 *)
offsetSection(o, format) ==
    IF ~format.showUTCoffset THEN <<>>
    ELSE (IF o.timezoneOffset >= 0 THEN <<"+">> ELSE <<>>)
             \o (IF format.fillZeros THEN padZerosDouble(o.timezoneOffset)
                 ELSE to_string_double(o.timezoneOffset))
             \o <<" ", "U", "T", "C">>

(* DateTime::toString(const DateTimeFormat&) on the object o: the string,  *)
(* or the exception                                                        *)
toString(o, format) ==
    LET name == nameAt(dotwStrMap, o.dotw)
        head == IF format.fullNames THEN name.val
                ELSE substr(name.val, shortStrLength)
    IN  IF format.showDotw /\ name.thrown # "none" THEN name
        ELSE LET date == orderLoop(o, format,
                                   IF format.showDotw THEN head \o <<",", " ">>
                                   ELSE <<>>, 1)
             IN  IF date.thrown # "none" THEN date
                 ELSE Value([date.val EXCEPT ![Len(date.val)] = " "]
                                \o timeSection(o, format)
                                \o offsetSection(o, format))

(* DateTime::toString(const std::string&): the format is parsed first *)
toStringText(o, text) ==
    LET format == DateTimeFormat(text)
    IN  IF format.thrown # "none" THEN format ELSE toString(o, format.val)

-----------------------------------------------------------------------------
(* The state: the DateTime objects the caller holds (two variables, a and  *)
(* b), the DateTimeFormat it holds, the last call made and its outcome.    *)

Slots == {"a", "b"}

NoFormat == [live |-> FALSE]

Returned(v) == [kind |-> "value", err |-> "none", val |-> v]

Thrown(e) == [kind |-> "throw", err |-> e, val |-> 0]

(* the process is ended by a signal: nothing is returned or thrown *)
Crashed == [kind |-> "crash", err |-> "none", val |-> 0]

Init ==
    /\ dt = [i \in Slots |-> NoObject]
    /\ fmt = NoFormat
    /\ call = [op |-> "none"]
    /\ ret = [kind |-> "none", err |-> "none", val |-> 0]

(* the outcome of a call as the caller sees it *)
Outcome(r) == IF r.thrown = "none" THEN Returned(r.val) ELSE Thrown(r.thrown)

(* DateTime a(text, timezoneOffset), text a char* *)
ConstructLit(i, text, timezoneOffset) ==
    /\ ~dt[i].live
    /\ \E n \in {strtoll(text)} : Walkable(n)
    /\ \E r \in {DateTimeLit(text, timezoneOffset)} :
           /\ dt' = [dt EXCEPT ![i] = IF r.thrown = "none" THEN r.val ELSE NoObject]
           /\ ret' = Outcome(r)
    /\ call' = [op |-> "DateTime(char*)", slot |-> i, text |-> text,
                timezoneOffset |-> timezoneOffset]
    /\ UNCHANGED fmt

(* DateTime a(text, timezoneOffset), text a std::string *)
ConstructStr(i, text, timezoneOffset) ==
    /\ ~dt[i].live
    /\ \E n \in {stoll(text)} : n.thrown = "none" => Walkable(n.val)
    /\ \E r \in {DateTimeStr(text, timezoneOffset)} :
           /\ dt' = [dt EXCEPT ![i] = IF r.thrown = "none" THEN r.val ELSE NoObject]
           /\ ret' = Outcome(r)
    /\ call' = [op |-> "DateTime(string)", slot |-> i, text |-> text,
                timezoneOffset |-> timezoneOffset]
    /\ UNCHANGED fmt

(* the variable goes out of scope *)
Destroy(i) ==
    /\ dt[i].live
    /\ dt' = [dt EXCEPT ![i] = NoObject]
    /\ call' = [op |-> "~DateTime", slot |-> i]
    /\ ret' = [kind |-> "none", err |-> "none", val |-> 0]
    /\ UNCHANGED fmt

(* DateTimeFormat f(text): the call that call holds is made *)
ParseFormat ==
    /\ call.op = "DateTimeFormat" /\ call.at = "pending"
    /\ \E r \in {DateTimeFormat(call.text)} :
           /\ fmt' = IF r.thrown = "none" THEN r.val ELSE NoFormat
           /\ ret' = Outcome(r)
    /\ call' = [call EXCEPT !.at = "done"]
    /\ UNCHANGED dt

(* a.toString(f), f the DateTimeFormat held *)
Render(i) ==
    /\ dt[i].live /\ fmt.live
    /\ call.op = "DateTimeFormat" /\ call.at = "done"
    /\ call' = [op |-> "toString(DateTimeFormat)", at |-> "done", slot |-> i,
                text |-> call.text]
    /\ \E o \in {dt[i]} : \E r \in {toString(o, fmt)} : ret' = Outcome(r)
    /\ UNCHANGED <<dt, fmt>>

(* a.toString(text), text a std::string *)
ToStringText(i, text) ==
    /\ dt[i].live
    /\ call' = [op |-> "toString(string)", slot |-> i, text |-> text]
    /\ \E o \in {dt[i]} : \E r \in {toStringText(o, text)} : ret' = Outcome(r)
    /\ UNCHANGED <<dt, fmt>>

CompareOps == {"<", ">", "==", "<=", ">="}

(* what the comparison op makes of two long long values *)
compare(op, x, y) ==
    LET c == LLCmp(x, y)
    IN  CASE op = "<"  -> c < 0
          [] op = ">"  -> c > 0
          [] op = "==" -> c = 0
          [] op = "<=" -> c <= 0
          [] op = ">=" -> c >= 0

(* the exceptions the two std::stoll calls of an operator can end in *)
operandThrows(x, y) ==
    {r.thrown : r \in {z \in {x, y} : z.thrown # "none"}}

(* a op b for one of the five comparisons *)
Compare(op, i, j) ==
    /\ dt[i].live /\ dt[j].live
    /\ call' = [op |-> op, lhs |-> i, rhs |-> j]
    /\ LET x == stoll(dt[i].unix_str)
           y == stoll(dt[j].unix_str)
       IN  IF operandThrows(x, y) # {}
           THEN \E e \in operandThrows(x, y) : ret' = Thrown(e)
           ELSE ret' = Returned(compare(op, x.val, y.val))
    /\ UNCHANGED <<dt, fmt>>

ArithOps == {"+", "-", "*", "/"}

(* the integer the operation gives when it is defined: any size *)
arith(op, x, y) ==
    CASE op = "+" -> LLAdd(x, y)
      [] op = "-" -> LLSub(x, y)
      [] op = "*" -> LLMul(x, y)
      [] op = "/" -> LLDiv(x, y)

TwoTo64 == LL(FALSE, <<1,8,4,4,6,7,4,4,0,7,3,7,0,9,5,5,1,6,1,6>>)

(* x reduced modulo 2^64 into the range of long long *)
wrap64(x) ==
    LET r == LLRem(x, TwoTo64)
    IN  IF LLCmp(r, LLONG_MAX) > 0 THEN LLSub(r, TwoTo64)
        ELSE IF LLCmp(r, LLONG_MIN) < 0 THEN LLAdd(r, TwoTo64)
        ELSE r

(* The long long values the expression x op y can give.  Division by zero  *)
(* and signed overflow are undefined behaviour: the builds either trap     *)
(* (no value: the process ends) or go on with the value the hardware       *)
(* leaves, 0 for a division by zero and the result modulo 2^64 for an      *)
(* overflow.  traps tells whether ending the process is an outcome.        *)
arithValues(op, x, y) ==
    IF op = "/" /\ y = LLZero THEN [traps |-> TRUE, vals |-> {LLZero}]
    ELSE LET r == arith(op, x, y)
         IN  IF ~InLLRange(r) THEN [traps |-> TRUE, vals |-> {wrap64(r)}]
             ELSE [traps |-> FALSE, vals |-> {r}]

(* a op b for one of the four arithmetic operators: a new DateTime is      *)
(* returned, built from the text of the result with offset 0               *)
Arith(op, i, j) ==
    /\ dt[i].live /\ dt[j].live
    /\ call' = [op |-> op, lhs |-> i, rhs |-> j]
    /\ LET x == stoll(dt[i].unix_str)
           y == stoll(dt[j].unix_str)
       IN  IF operandThrows(x, y) # {}
           THEN \E e \in operandThrows(x, y) : ret' = Thrown(e)
           ELSE \E v \in {arithValues(op, x.val, y.val)} :
                   \/ v.traps /\ ret' = Crashed
                   \/ \E n \in v.vals :
                         /\ Walkable(n)
                         /\ \E text \in {to_string(n)} :
                            \E r \in {DateTimeStr(text, 0)} : ret' = Outcome(r)
    /\ UNCHANGED <<dt, fmt>>

(* "W, DD/MM/YY, HH:II:SS O UTC", the default argument of toString *)
DefaultFormatText ==
    <<"W", ",", " ", "D", "D", "/", "M", "M", "/", "Y", "Y", ",", " ", "H", "H", ":", "I", "I", ":", "S", "S", " ", "O", " ", "U", "T", "C">>

(* The texts, offsets (in 64ths of an hour) and format texts the caller    *)
(* passes.                                                                 *)
EpochTexts ==
    {<<"0">>, <<"1", "0">>, <<"5", "0">>, <<"1", "0", "0">>, <<"4", "2", "9", "4", "9", "6", "7", "2", "9", "6">>, <<"a", "b", "c">>, <<"1", "2", "a", "b", "c">>, <<"9", "2", "2", "3", "3", "7", "2", "0", "3", "6", "8", "5", "4", "7", "7", "5", "8", "0", "8">>}

Offsets == {0, 352}

RenderTexts == {DefaultFormatText, <<"m", "m", "-", "d", "d", "-", "y", "y", "y", "y">>, <<"d", "m">>}

Next ==
    \/ \E i \in Slots, text \in EpochTexts, timezoneOffset \in Offsets :
          \/ ConstructLit(i, text, timezoneOffset)
          \/ ConstructStr(i, text, timezoneOffset)
    \/ \E i \in Slots : Destroy(i)
    \/ \E i \in Slots, text \in RenderTexts : ToStringText(i, text)
    \/ \E op \in CompareOps, i, j \in Slots : Compare(op, i, j)
    \/ \E op \in ArithOps, i, j \in Slots : Arith(op, i, j)

Spec == Init /\ [][Next]_vars

(* the epoch an object was built from *)
EpochOf(o) == strtoll(o.unix_str)

(* C2: a DateTime constructed from epoch 0 with offset 0, rendered with    *)
(* the default format text "W, DD/MM/YY, HH:II:SS O UTC", gives exactly    *)
(* "Thu, 01/01/1970 00:00:00 +00 UTC".                                     *)
C2_DefaultRender ==
    (/\ call.op = "toString(string)"
     /\ call.text = DefaultFormatText
     /\ dt[call.slot].unix_str = <<"0">>
     /\ dt[call.slot].timezoneOffset = 0)
    => /\ ret.kind = "value"
       /\ ret.val = <<"T", "h", "u", ",", " ", "0", "1", "/", "0", "1", "/",
                      "1", "9", "7", "0", " ", "0", "0", ":", "0", "0", ":",
                      "0", "0", " ", "+", "0", "0", " ", "U", "T", "C">>

(* the text is an optional sign and one or more decimal digits, nothing    *)
(* else, and its value is in the range of long long                        *)
IsDecimalInteger(text) ==
    LET digits == IF text # <<>> /\ text[1] \in {"+", "-"} THEN Tail(text)
                  ELSE text
    IN  /\ digits # <<>>
        /\ \A k \in 1..Len(digits) : IsDigit(digits[k])
        /\ InLLRange(ScanInteger(text).val)

ConstructorCalled == call.op \in {"DateTime(char*)", "DateTime(string)"}

(* C5: through either constructor, a text that is not a valid signed       *)
(* decimal integer (not numeric, digits followed by other characters, or   *)
(* a value outside 64 bits) makes the construction fail with               *)
(* std::invalid_argument, and no DateTime object exists afterwards.        *)
C5_InvalidTextFails ==
    (ConstructorCalled /\ ~IsDecimalInteger(call.text))
    => /\ ret.kind = "throw" /\ ret.err = "invalid_argument"
       /\ ~dt[call.slot].live

(* C6: for every two constructed DateTime objects, each of the five        *)
(* comparisons returns, and never throws, the result of comparing the      *)
(* epoch integers the two objects were constructed from, whatever their    *)
(* offsets and fields.                                                     *)
C6_CompareByEpoch ==
    call.op \in CompareOps
    => /\ ret.kind = "value"
       /\ ret.val = compare(call.op, EpochOf(dt[call.lhs]),
                            EpochOf(dt[call.rhs]))

(* C7: dividing a DateTime by a DateTime whose epoch is 0 ends in an       *)
(* exception that reaches the caller; no DateTime is returned.             *)
C7_DivisionByZeroThrows ==
    (call.op = "/" /\ EpochOf(dt[call.rhs]) = LLZero) => ret.kind = "throw"

(* C8: a + b, a - b and a * b each return a new DateTime whose epoch text  *)
(* is the decimal text of the integer result of the operation on the two   *)
(* epochs, whose offset is 0 and whose fields are those of that epoch.     *)
C8_Arithmetic ==
    call.op \in {"+", "-", "*"}
    => LET result == arith(call.op, EpochOf(dt[call.lhs]),
                           EpochOf(dt[call.rhs]))
       IN  /\ ret.kind = "value"
           /\ ret.val.unix_str = to_string(result)
           /\ ret.val.timezoneOffset = 0
           /\ ret.val = DateTimeStr(to_string(result), 0).val

-----------------------------------------------------------------------------
(* The calendar helpers called on their own                                *)

(* call holds the call the caller is about to make (at "pending") and,    *)
(* once made (at "done"), ret holds its outcome.                           *)
CalCall(op, year, month, day) ==
    [op |-> op, at |-> "pending", year |-> year, month |-> month, day |-> day]

CallIsLeapYear ==
    /\ call.op = "isLeapYear" /\ call.at = "pending"
    /\ call' = [call EXCEPT !.at = "done"]
    /\ ret' = Returned(isLeapYear(call.year))
    /\ UNCHANGED <<dt, fmt>>

CallDaysInMonth ==
    /\ call.op = "daysInMonth" /\ call.at = "pending"
    /\ call' = [call EXCEPT !.at = "done"]
    /\ ret' = Outcome(daysInMonth(call.year, call.month))
    /\ UNCHANGED <<dt, fmt>>

CallDotwByDate ==
    /\ call.op = "dotwByDate" /\ call.at = "pending"
    /\ call' = [call EXCEPT !.at = "done"]
    /\ ret' = Outcome(dotwByDate(call.year, call.month, call.day))
    /\ UNCHANGED <<dt, fmt>>

(* years -MaxCalYear .. MaxCalYear and the years of the reference table *)
MaxCalYear == 410

CalYears == (-MaxCalYear..MaxCalYear) \cup {1600, 1900, 1970, 1972, 2000, 2100}

(* month_t and day_t arguments, the out-of-range ones included *)
CalMonths == 0..13

CalDotwYears == {-400, -100, -4, -1, 0, 1, 1600, 1900, 1970, 1972, 2000, 2100}

CalDays == 0..32

InitCal ==
    /\ dt = [i \in Slots |-> NoObject]
    /\ fmt = NoFormat
    /\ ret = [kind |-> "none", err |-> "none", val |-> 0]
    /\ call \in {CalCall("isLeapYear", y, 0, 0) : y \in CalYears}
           \cup {CalCall("daysInMonth", y, m, 0) : y \in CalYears, m \in CalMonths}
           \cup {CalCall("dotwByDate", y, m, d) :
                    y \in CalDotwYears, m \in CalMonths, d \in CalDays}

NextCal == CallIsLeapYear \/ CallDaysInMonth \/ CallDotwByDate

SpecCal == InitCal /\ [][NextCal]_vars

(* C10: isLeapYear(year) is true exactly when year is divisible by 4 and   *)
(* (not divisible by 100 or divisible by 400), negative years and 0        *)
(* included, and daysInMonth(year, 1) is 29 exactly when isLeapYear(year)  *)
(* is true and 28 otherwise.                                               *)
Divides(k, n) == \E q \in -Abs(n)..Abs(n) : n = k * q

C10_LeapYearRule ==
    call.at = "done" =>
    /\ call.op = "isLeapYear" =>
          (ret.val <=> (Divides(4, call.year)
                          /\ (~Divides(100, call.year) \/ Divides(400, call.year))))
    /\ (call.op = "daysInMonth" /\ call.month = 1) =>
          /\ ret.kind = "value"
          /\ ret.val = (IF Divides(4, call.year)
                           /\ (~Divides(100, call.year) \/ Divides(400, call.year))
                        THEN 29 ELSE 28)
          /\ (ret.val = 29) <=> isLeapYear(call.year)

(* February of the negative century year -100 has been found to have 28   *)
(* days, through isLeapYear(-100) = FALSE.                                 *)
C10_Witness ==
    /\ call.at = "done" /\ call.op = "daysInMonth"
    /\ call.year = -100 /\ call.month = 1
    /\ ret.val = 28 /\ ~isLeapYear(call.year) /\ isLeapYear(-400)

-----------------------------------------------------------------------------
(* The epoch conversion on its own: objects are built from the decimal     *)
(* text of sampled epochs, with offset 0.                                  *)

(* Days since 1970-01-01 of the civil date y-m-d (m and d 1-based) in the  *)
(* proleptic Gregorian calendar, by the closed formula on 400-year eras:   *)
(* the reference the walk of parseUnix is compared with.                   *)
DaysFromCivil(y, m, d) ==
    LET yy  == IF m <= 2 THEN y - 1 ELSE y
        era == yy \div 400
        yoe == yy - era * 400
        mp  == IF m > 2 THEN m - 3 ELSE m + 9
        doy == (153 * mp + 2) \div 5 + d - 1
        doe == yoe * 365 + yoe \div 4 - yoe \div 100 + doy
    IN  era * 146097 + doe - 719468

(* the sampled days run from 1600-01-01, DaysBefore1970 days before the    *)
(* epoch, to the day that holds epoch 10^10, DaysAfter1970 days after it   *)
DaysBefore1970 == 135140

DaysAfter1970 == 115741

DayStride == 401

SampleYears == {1600, 1700, 1800, 1900, 1968, 1969, 1970, 1971, 1972,
                2000, 2038, 2100, 2200, 2286}

SampleDays ==
    {k * DayStride : k \in -(DaysBefore1970 \div DayStride)..(DaysAfter1970 \div DayStride)}
        \cup {-DaysBefore1970, DaysAfter1970}
        \cup {n \in {DaysFromCivil(y, md[1], md[2]) + k :
                        y \in SampleYears, md \in {<<1, 1>>, <<3, 1>>}, k \in -2..0} :
                 n >= -DaysBefore1970 /\ n <= DaysAfter1970}

SampleSeconds == {0, 59, 3600, 43200, 86399}

(* the decimal text of the epoch of second s of day d *)
EpochText(d, s) ==
    to_string(LLAdd(LLMul(LLOfInt(d), LLOfInt(secondsInDay)), LLOfInt(s)))

NextConv ==
    \/ \E d \in SampleDays, s \in SampleSeconds : ConstructStr("a", EpochText(d, s), 0)
    \/ Destroy("a")

SpecConv == Init /\ [][NextConv]_vars

TenToTheTenth == LL(FALSE, <<1, 0, 0, 0, 0, 0, 0, 0, 0, 0, 0>>)

(* the fields of an object, re-encoded as seconds since the epoch *)
Reencode(o) ==
    LLAdd(LLMul(LLOfInt(DaysFromCivil(o.years, o.months + 1, o.days + 1)),
                LLOfInt(86400)),
          LLOfInt(o.hours * 3600 + o.minutes * 60 + o.seconds))

(* C1: for every epoch e in -10^10 .. 10^10 with offset 0, the fields of   *)
(* parseUnix (year, month+1, day+1, hour, minute, second), re-encoded by   *)
(* the days-from-civil formula as days*86400 + hour*3600 + minute*60 +     *)
(* second, give back exactly e.                                            *)
C1_RoundTrip ==
    \A i \in Slots :
        (/\ dt[i].live
         /\ dt[i].timezoneOffset = 0
         /\ MagCmp(EpochOf(dt[i]).mag, TenToTheTenth.mag) <= 0)
        => Reencode(dt[i]) = EpochOf(dt[i])

(* an epoch before 1970 and beyond 32 bits, at the last second of the      *)
(* first minute of a day, has been converted and re-encodes to itself      *)
C1_Witness ==
    /\ dt["a"].live
    /\ dt["a"].timezoneOffset = 0
    /\ EpochOf(dt["a"]).neg
    /\ Len(EpochOf(dt["a"]).mag) = 10
    /\ dt["a"].years < 1700
    /\ dt["a"].seconds = 59
    /\ Reencode(dt["a"]) = EpochOf(dt["a"])

(* floor(e / 86400) for an epoch e *)
EpochDay(e) ==
    LET q == IntOfLL(LLDiv(e, LLOfInt(86400)))
    IN  IF LLRem(e, LLOfInt(86400)).neg THEN q - 1 ELSE q

Wednesday == 3

Thursday == 4

(* C9: for every epoch with offset 0 whose civil date lies in year 1600 or *)
(* later (through epoch 10^10), the stored dayOfWeek is                    *)
(* (floor(epoch/86400) + 4) mod 7 with Sunday = 0; 1970-01-01 is Thursday, *)
(* 2000-01-01 is Saturday and epoch -86400 is Wednesday 1969-12-31.        *)
C9_Weekday ==
    \A i \in Slots :
        (dt[i].live /\ dt[i].timezoneOffset = 0 /\ dt[i].years >= 1600) =>
            /\ dt[i].dotw = (EpochDay(EpochOf(dt[i])) + 4) % 7
            /\ (dt[i].years = 1970 /\ dt[i].months = 0 /\ dt[i].days = 0)
                   => dt[i].dotw = Thursday
            /\ (dt[i].years = 2000 /\ dt[i].months = 0 /\ dt[i].days = 0)
                   => dt[i].dotw = Saturday
            /\ dt[i].unix_str = <<"-", "8", "6", "4", "0", "0">>
                   => /\ dt[i].years = 1969 /\ dt[i].months = 11 /\ dt[i].days = 30
                      /\ dt[i].dotw = Wednesday

(* epoch -86400 has been converted: Wednesday 1969-12-31 *)
C9_Witness ==
    /\ dt["a"].live
    /\ dt["a"].unix_str = <<"-", "8", "6", "4", "0", "0">>
    /\ dt["a"].timezoneOffset = 0
    /\ dt["a"].years = 1969 /\ dt["a"].months = 11 /\ dt["a"].days = 30
    /\ dt["a"].dotw = Wednesday

-----------------------------------------------------------------------------
(* The format parser and the renderer on their own: a DateTime exists, a   *)
(* format text is parsed, the DateTime is rendered with the result.        *)

FmtAlphabet == {"d", "m", "y", "a", "/"}

MaxFmtLen == 5

MaxRepeat == 2

FmtDelimiters == {"/", "-", "."}

(* the orders of a day, a year and one form of the month *)
FmtOrders ==
    {o \in [1..3 -> {"d", "m", "y", "a"}] :
        Range(o) \in {{"d", "m", "y"}, {"d", "a", "y"}}}

Group(token, k) == [n \in 1..k |-> token]

(* three token groups separated by the character c *)
Separated(o, reps, c) ==
    Group(o[1], reps[1]) \o <<c>> \o Group(o[2], reps[2]) \o <<c>>
        \o Group(o[3], reps[3])

SeparatedFormats ==
    {[text |-> Separated(o, reps, c), c |-> c] :
        o \in FmtOrders, reps \in [1..3 -> 1..MaxRepeat], c \in FmtDelimiters}

NamedFormats ==
    {DefaultFormatText,
     <<"m", "m", "-", "d", "d", "-", "y", "y", "y", "y">>,
     <<"M", "M", "/", "D", "D", "/", "Y", "Y">>,
     <<"W", "W", ",", " ", "A", " ", "D", " ", "Y">>,
     <<"d", ".", "m", ".", "y", " ", "h", ":", "i", ":", "s", " ", "_", " ", "o">>}

FormatTexts ==
    UNION {[1..n -> FmtAlphabet] : n \in 0..MaxFmtLen}
        \cup {f.text : f \in SeparatedFormats}
        \cup NamedFormats

FmtEpochs == {<<"0">>, <<"-", "8", "6", "4", "0", "0">>}

InitFmt ==
    /\ \E e \in FmtEpochs : dt = [i \in Slots |->
                IF i = "a" THEN DateTimeStr(e, 0).val ELSE NoObject]
    /\ fmt = NoFormat
    /\ ret = [kind |-> "none", err |-> "none", val |-> 0]
    /\ call \in {[op |-> "DateTimeFormat", at |-> "pending", text |-> t] :
                    t \in FormatTexts}

NextFmt == ParseFormat \/ Render("a")

SpecFmt == InitFmt /\ [][NextFmt]_vars

(* the DateTimeFormat call that call holds has been made *)
FormatParsed == call.op = "DateTimeFormat" /\ call.at = "done"

(* the format text of the call references the token *)
References(token) == token \in Range(toLowercase(call.text))

(* C3: a format text is parsed successfully only when it references the    *)
(* day token, the year token and exactly one of the two month tokens m     *)
(* and a; a text that lacks d, lacks y, or lacks both m and a fails with   *)
(* std::runtime_error and no DateTimeFormat exists afterwards.             *)
C3_RequiredTokens ==
    FormatParsed =>
        /\ ret.kind = "value" =>
              /\ References(dayToken) /\ References(yearToken)
              /\ References(monthToken) # References(alphabeticalMonthToken)
        /\ (\/ ~References(dayToken)
            \/ ~References(yearToken)
            \/ ~References(monthToken) /\ ~References(alphabeticalMonthToken))
              => ret.kind = "throw" /\ ret.err = "runtime_error" /\ ~fmt.live

(* C4: when the day, month (m or a) and year groups of the format text,    *)
(* each single or doubled and in any order, are separated by one and the   *)
(* same non-token character c, the delimiter of the parsed format is c.    *)
C4_Delimiter ==
    FormatParsed =>
        \A f \in SeparatedFormats :
            f.text = call.text => fmt.live /\ fmt.delimiter = f.c

-----------------------------------------------------------------------------
(* parseUnix called on its own, with epochs on both sides of the day,      *)
(* month and year boundaries and offsets of both signs.                    *)

CallParseUnix ==
    /\ call.op = "parseUnix" /\ call.at = "pending"
    /\ call' = [call EXCEPT !.at = "done"]
    /\ \E r \in {parseUnix(call.unix, call.timezoneOffset)} : ret' = Outcome(r)
    /\ UNCHANGED <<dt, fmt>>

(* days so far from 1970 that the year_t of the walk wraps around: in the  *)
(* years before -32768 and after 32767                                     *)
FarDays == {-12700000, 12000000}

(* the first of January and of March of the sample years and the two days  *)
(* before them, and the first and last sampled day                         *)
BoundaryDays ==
    {DaysFromCivil(y, md[1], md[2]) + k :
        y \in SampleYears, md \in {<<1, 1>>, <<3, 1>>}, k \in -2..0}
        \cup {-DaysBefore1970, DaysAfter1970}
        \cup FarDays

BoundarySeconds == {0, 1, 3599, 43200, 86399}

(* offsets in 64ths of an hour: none, 1/64 h, 1 h, 5.5 h, 14 h and -12 h   *)
ParseOffsets == {0, 1, -1, 64, -64, 352, -352, 896, -768}

InitParse ==
    /\ dt = [i \in Slots |-> NoObject]
    /\ fmt = NoFormat
    /\ ret = [kind |-> "none", err |-> "none", val |-> 0]
    /\ call \in {[op |-> "parseUnix", at |-> "pending",
                  unix |-> LLAdd(LLMul(LLOfInt(d), LLOfInt(secondsInDay)),
                                 LLOfInt(s)),
                  timezoneOffset |-> z] :
                    d \in BoundaryDays, s \in BoundarySeconds, z \in ParseOffsets}

NextParse == CallParseUnix

SpecParse == InitParse /\ [][NextParse]_vars

ParseUnixDone == call.op = "parseUnix" /\ call.at = "done"

(* C11: for every epoch and every offset, parseUnix throws nothing (the    *)
(* checks of daysInMonth and dotwByDate are not triggered), the remainder  *)
(* of the day is in 0..86399, and the fields assigned satisfy month in     *)
(* 0..11, day in 0..daysInMonth(year, month)-1, hour in 0..23, minute in   *)
(* 0..59 and second in 0..59.                                              *)
C11_FieldRanges ==
    ParseUnixDone =>
        /\ ret.kind = "value"
        /\ ret.val.remainder \in 0..(secondsInDay - 1)
        /\ ret.val.months \in 0..11
        /\ ret.val.days \in 0..(daysInMonth(ret.val.years, ret.val.months).val - 1)
        /\ ret.val.hours \in 0..23
        /\ ret.val.minutes \in 0..59
        /\ ret.val.seconds \in 0..59

(* an epoch before 1970 with a negative fractional offset, whose negative  *)
(* remainder was corrected: the result is the last minute of a 31 December *)
C11_Witness ==
    /\ ParseUnixDone
    /\ call.unix.neg /\ call.timezoneOffset = -1
    /\ ret.kind = "value"
    /\ ret.val.months = 11 /\ ret.val.days = 30
    /\ ret.val.hours = 23 /\ ret.val.minutes = 59

-----------------------------------------------------------------------------
(* Rendering with a format that shows the date only                        *)

Rendered == call.op = "toString(DateTimeFormat)"

DateOnly == ~fmt.showDotw /\ ~fmt.showTime /\ ~fmt.showUTCoffset

(* the order tokens of a format text, each once, by first occurrence *)
FirstOccurrenceOrder(text) ==
    LET low == toLowercase(text)
        tokens == {c \in Range(low) : isOrderToken(c)}
        first(c) == CHOOSE k \in 1..Len(low) :
                        low[k] = c /\ \A j \in 1..(k - 1) : low[j] # c
    IN  CHOOSE q \in [1..Cardinality(tokens) -> tokens] :
            \A k, j \in 1..Cardinality(tokens) : k < j => first(q[k]) < first(q[j])

(* a 1-based day or month number, two digits wide when padded *)
PaddedNumber(n, fill) ==
    IF fill /\ n < 10 THEN <<"0">> \o to_string_int(n) ELSE to_string_int(n)

(* what the field of an order token shows *)
FieldText(o, token) ==
    CASE token = dayToken -> PaddedNumber(o.days + 1, fmt.fillZeros)
      [] token = monthToken -> PaddedNumber(o.months + 1, fmt.fillZeros)
      [] token = alphabeticalMonthToken ->
             SubSeq(monthsStrMap[o.months + 1], 1, shortStrLength)
      [] token = yearToken -> to_string_int(o.years)

(* C12: with a format that parsed and sets none of the day-of-week, time   *)
(* and offset flags, the rendered string is the three fields in the order  *)
(* of first occurrence of the order tokens, the first two each followed by *)
(* the parsed delimiter and the third by one space; day and month are      *)
(* 1-based and padded to two digits exactly when fillZeros is set and the  *)
(* value is below 10, the year is not padded.  "mm-dd-yyyy" at epoch 0     *)
(* has order month, day, year, delimiter '-', padding on, and gives        *)
(* "01-01-1970 ".                                                          *)
C12_DateOnlyRender ==
    (Rendered /\ DateOnly) =>
        LET o == dt[call.slot]
            order == FirstOccurrenceOrder(call.text)
        IN  /\ ret.kind = "value"
            /\ Len(order) = 3
            /\ ret.val = FieldText(o, order[1]) \o <<fmt.delimiter>>
                             \o FieldText(o, order[2]) \o <<fmt.delimiter>>
                             \o FieldText(o, order[3]) \o <<" ">>
            /\ (call.text = <<"m", "m", "-", "d", "d", "-", "y", "y", "y", "y">> /\ o.unix_str = <<"0">>) =>
                  /\ fmt.order = <<"m", "d", "y">>
                  /\ fmt.delimiter = "-"
                  /\ fmt.fillZeros
                  /\ ret.val = <<"0", "1", "-", "0", "1", "-", "1", "9", "7", "0", " ">>

(* "mm-dd-yyyy" has been rendered for 1969-12-31: padding is on and        *)
(* neither the month nor the day is padded                                 *)
C12_Witness ==
    /\ Rendered /\ DateOnly
    /\ call.text = <<"m", "m", "-", "d", "d", "-", "y", "y", "y", "y">>
    /\ dt[call.slot].unix_str = <<"-", "8", "6", "4", "0", "0">>
    /\ fmt.fillZeros
    /\ ret.kind = "value"
    /\ ret.val = <<"1", "2", "-", "3", "1", "-", "1", "9", "6", "9", " ">>

-----------------------------------------------------------------------------
(* Two DateTime objects one day apart, around the first of January and of  *)
(* March of years on both sides of year 0.                                 *)

WeekYears == {-400, -100, -4, -1, 0, 1}

WeekDays ==
    {DaysFromCivil(y, md[1], md[2]) + k :
        y \in WeekYears, md \in {<<1, 1>>, <<3, 1>>}, k \in -1..0}

NextWeek ==
    \/ \E i \in Slots, d \in WeekDays : ConstructStr(i, EpochText(d, 0), 0)
    \/ \E i \in Slots : Destroy(i)

SpecWeek == Init /\ [][NextWeek]_vars

(* C13: of two epochs 86400 seconds apart with offset 0, in any year down  *)
(* to the years at and below 0, the later one's dotw is the successor      *)
(* modulo 7 of the earlier one's; every dotw is one of Sunday..Saturday,   *)
(* and for dates in years <= 0 it still is (floor(epoch/86400) + 4) mod 7. *)
C13_WeekdaySuccession ==
    /\ \A i \in Slots :
          (dt[i].live /\ dt[i].timezoneOffset = 0) =>
              /\ dt[i].dotw \in Sunday..Saturday
              /\ dt[i].years <= 0 =>
                    dt[i].dotw = (EpochDay(EpochOf(dt[i])) + 4) % 7
    /\ \A i, j \in Slots :
          (/\ dt[i].live /\ dt[j].live
           /\ dt[i].timezoneOffset = 0 /\ dt[j].timezoneOffset = 0
           /\ EpochOf(dt[j]) = LLAdd(EpochOf(dt[i]), LLOfInt(secondsInDay)))
          => dt[j].dotw = (dt[i].dotw + 1) % 7

=============================================================================
